---- MODULE Spec2Model ----
(***************************************************************************)
(* PocketBase export_data.py / import_data.py.                             *)
(*                                                                         *)
(* The two scripts are separate processes that share only a directory of   *)
(* <collection>.json files.  The model is a sequence of at most MaxRuns    *)
(* invocations of either script against one directory.  The backend is     *)
(* the environment: each request either raises (no response) or answers    *)
(* with a status drawn from a small set and, for a GET, a JSON body.       *)
(***************************************************************************)
EXTENDS Integers, Sequences, FiniteSets, TLC

\* number of script invocations in one behaviour
MaxRuns == 2

(***************************************************************************)
(* Data                                                                    *)
(***************************************************************************)

\* export_data.py main(): the hardcoded collection list
collections == <<"users", "posts", "comments", "products", "orders">>

\* the keys import_collection pops from every record
SystemFields == {"id", "created", "updated"}

\* records
RecFull == [id |-> "a", created |-> "t1", updated |-> "t2", name |-> "x"]
RecPlain == [name |-> "y"]
RecId == [id |-> "a", name |-> "x"]

\* JSON documents (the list-response shape)
DocNoItems == [page |-> 1]
DocEmptyItems == [page |-> 1, items |-> << >>]
DocOneItem == [items |-> <<RecId>>]
DocOnePlain == [page |-> 1, items |-> <<RecPlain>>]
DocTwoItems == [page |-> 1, items |-> <<RecFull, RecPlain>>]

\* the body the backend answers a GET for each collection with, when it
\* answers 200
ServerDoc ==
    [c \in {"users", "posts", "comments", "products", "orders"} |->
        CASE c = "users" -> DocOneItem
          [] c = "posts" -> DocNoItems
          [] c = "comments" -> DocTwoItems
          [] c = "products" -> DocEmptyItems
          [] c = "orders" -> DocOnePlain]

\* documents found in a directory that an earlier export left behind
DocStale == [items |-> <<RecPlain>>]
DocArchive == [items |-> <<RecFull>>]

\* statuses the backend answers with
GetStatuses == {200, 404}
PostStatuses == {200, 201, 400}

\* a file's content: absent, text that is not JSON, or a JSON document
Absent == [kind |-> "absent"]
Bad == [kind |-> "bad"]
Json(d) == [kind |-> "json", doc |-> d]

\* Path objects of the directory's entries: stem and suffix
JsonPath(name) == [stem |-> name, suffix |-> ".json"]
NotesPath == [stem |-> "notes", suffix |-> ".txt"]
FileNames ==
    {JsonPath(collections[i]) : i \in 1..Len(collections)}
        \cup {JsonPath("archive"), NotesPath}

\* code points of the strings that occur in file names
Chars ==
    [s \in {"users", "posts", "comments", "products", "orders", "archive",
            "notes", ".json", ".txt"} |->
        CASE s = "users" -> <<117, 115, 101, 114, 115>>
          [] s = "posts" -> <<112, 111, 115, 116, 115>>
          [] s = "comments" -> <<99, 111, 109, 109, 101, 110, 116, 115>>
          [] s = "products" -> <<112, 114, 111, 100, 117, 99, 116, 115>>
          [] s = "orders" -> <<111, 114, 100, 101, 114, 115>>
          [] s = "archive" -> <<97, 114, 99, 104, 105, 118, 101>>
          [] s = "notes" -> <<110, 111, 116, 101, 115>>
          [] s = ".json" -> <<46, 106, 115, 111, 110>>
          [] s = ".txt" -> <<46, 116, 120, 116>>]

\* Path.name as a sequence of code points
NameOf(f) == Chars[f.stem] \o Chars[f.suffix]

\* str.__lt__: first differing code point decides, a proper prefix is less
RECURSIVE LexLess(_, _)
LexLess(a, b) ==
    IF b = << >> THEN FALSE
    ELSE IF a = << >> THEN TRUE
    ELSE IF Head(a) # Head(b) THEN Head(a) < Head(b)
    ELSE LexLess(Tail(a), Tail(b))

\* Path.__lt__ for two entries of the same directory
PathLess(f, g) == LexLess(NameOf(f), NameOf(g))

\* the files in descending order of name
RECURSIVE sorted_Descending(_)
sorted_Descending(S) ==
    IF S = {} THEN << >>
    ELSE LET m == CHOOSE f \in S : \A g \in S \ {f} : PathLess(g, f)
         IN  <<m>> \o sorted_Descending(S \ {m})

\* sorted(json_files)
RECURSIVE sorted(_)
sorted(S) ==
    IF S = {} THEN << >>
    ELSE LET m == CHOOSE f \in S : \A g \in S \ {f} : PathLess(f, g)
         IN  <<m>> \o sorted(S \ {m})

\* Path(import_dir).glob("*.json") over the directory's entries
glob(fs) == {f \in FileNames : fs[f].kind # "absent" /\ f.suffix = ".json"}

\* data.get('items', [])
ItemsOf(doc) == IF "items" \in DOMAIN doc THEN doc.items ELSE << >>

\* a strip that forgets the last pop
StripSystemFields_KeepsUpdated(record) ==
    [k \in DOMAIN record \ {"id", "created"} |-> record[k]]

\* record.pop('id', None); record.pop('created', None); record.pop('updated', None)
StripSystemFields(record) ==
    [k \in DOMAIN record \ {"id", "created", "updated"} |-> record[k]]

\* f"{base_url}/api/collections/{collection_name}/records", below base_url
RecordsUrl(collection_name) == <<"api", "collections", collection_name, "records">>

\* a status test that takes every answer below 500 for a success
ExportStatusOk_Below500(status) == status < 500

\* export_collection: response.status_code == 200
ExportStatusOk(status) == status = 200

\* a write that keeps only the items of the response
Written_ItemsOnly(data) == Json([items |-> ItemsOf(data)])

\* export_collection: json.dump(data, f, indent=2), as json.load reads it back
Written(data) == Json(data)

\* a status test that forgets 201
ImportStatusOk_Only200(status) == status = 200

\* import_collection: response.status_code in [200, 201]
ImportStatusOk(status) == status \in {200, 201}

\* a result that is satisfied with one imported record
CollectionResult_Any(count, n) == count > 0

\* import_collection: return success_count == len(records)
CollectionResult(count, n) == count = n

\* a file without records taken for a failure
NoRecordsResult_False == FALSE

\* import_collection: the value returned when the file has no records
NoRecordsResult == TRUE

\* a check for files that never fires
NoJsonFiles_Never(found) == FALSE

\* import main(): if not json_files
NoJsonFiles(found) == found = {}

(***************************************************************************)
(* State                                                                   *)
(***************************************************************************)
VARIABLES
    prog,               \* script of the current or last run
    argc,               \* len(sys.argv) of that run
    pc,                 \* position in that script
    exitCode,           \* exit status of the last finished run, -1 before
    raised,             \* exception that ended the run, "none" otherwise
    runs,               \* invocations so far
    dirExists,          \* the directory exists
    files,              \* content of each entry of the directory
    collIdx,            \* exporter: index of the for loop over collections
    success_count,      \* main(): success_count of either script
    getLog,             \* exporter: GET urls issued in this run
    expOut,             \* exporter: one line per returned export_collection
    expDir0,            \* exporter: directory content when the run began
    expSummary,         \* exporter: <<succeeded, total>> once printed
    json_files,         \* importer: sorted(json_files)
    found,              \* importer: the glob result
    fileIdx,            \* importer: index of the for loop over files
    records,            \* import_collection: records
    recIdx,             \* import_collection: index of the for loop
    rec_success_count,  \* import_collection: success_count
    readLog,            \* importer: files opened in this run
    postLog,            \* importer: POSTs issued in this run
    impOut,             \* importer: one line per returned import_collection
    impSummary          \* importer: <<succeeded, total>> once printed

fsVars == <<dirExists, files>>
expVars == <<collIdx, getLog, expOut, expDir0, expSummary>>
impVars == <<json_files, found, fileIdx, records, recIdx, rec_success_count,
             readLog, postLog, impOut, impSummary>>
vars == <<prog, argc, pc, exitCode, raised, runs, success_count, fsVars, expVars, impVars>>

NoFiles == [f \in FileNames |-> Absent]

\* directories a run may find
InitialDirs ==
    { [exists |-> FALSE, files |-> NoFiles],
      [exists |-> TRUE, files |-> NoFiles],
      [exists |-> TRUE, files |-> [NoFiles EXCEPT ![NotesPath] = Bad]],
      [exists |-> TRUE,
       files |-> [NoFiles EXCEPT ![NotesPath] = Bad,
                                 ![JsonPath("users")] = Json(DocStale),
                                 ![JsonPath("archive")] = Json(DocArchive)]],
      [exists |-> TRUE,
       files |-> [NoFiles EXCEPT ![JsonPath("orders")] = Bad,
                                 ![JsonPath("posts")] = Json(DocNoItems)]] }

Init ==
    /\ \E d \in InitialDirs : dirExists = d.exists /\ files = d.files
    /\ prog = "none"
    /\ argc = 0
    /\ pc = "idle"
    /\ exitCode = -1
    /\ raised = "none"
    /\ runs = 0
    /\ collIdx = 0
    /\ success_count = 0
    /\ getLog = << >>
    /\ expOut = << >>
    /\ expDir0 = NoFiles
    /\ expSummary = << >>
    /\ json_files = << >>
    /\ found = {}
    /\ fileIdx = 0
    /\ records = << >>
    /\ recIdx = 0
    /\ rec_success_count = 0
    /\ readLog = << >>
    /\ postLog = << >>
    /\ impOut = << >>
    /\ impSummary = << >>

\* a script can be invoked when none is running
CanStart == pc \in {"idle", "exited", "crashed"} /\ runs < MaxRuns

\* the importer's state before its first run
ImpReset ==
    /\ json_files' = << >>
    /\ found' = {}
    /\ fileIdx' = 0
    /\ records' = << >>
    /\ recIdx' = 0
    /\ rec_success_count' = 0
    /\ readLog' = << >>
    /\ postLog' = << >>
    /\ impOut' = << >>
    /\ impSummary' = << >>

\* sys.exit(code), or the interpreter ending the process
Exit(code) ==
    /\ pc' = "exited"
    /\ exitCode' = code
    /\ raised' = "none"

\* an uncaught exception: traceback, exit status 1
Crash(exc) ==
    /\ pc' = "crashed"
    /\ exitCode' = 1
    /\ raised' = exc

(***************************************************************************)
(* export_data.py                                                          *)
(***************************************************************************)

\* main(): len(sys.argv) < 2
ExportUsage ==
    /\ CanStart
    /\ prog' = "export"
    /\ argc' = 1
    /\ runs' = runs + 1
    /\ Exit(1)
    /\ collIdx' = 0
    /\ success_count' = 0
    /\ getLog' = << >>
    /\ expOut' = << >>
    /\ expDir0' = files
    /\ expSummary' = << >>
    /\ ImpReset
    /\ UNCHANGED fsVars

\* main() up to the for loop: mkdir(exist_ok=True), success_count = 0.
\* With or without the output_dir argument the run writes to one directory,
\* the one the importer is later pointed at.
ExportBegin ==
    /\ CanStart
    /\ prog' = "export"
    /\ argc' \in {2, 3}
    /\ runs' = runs + 1
    /\ pc' = "loop"
    /\ exitCode' = -1
    /\ raised' = "none"
    /\ dirExists' = TRUE
    /\ collIdx' = 1
    /\ success_count' = 0
    /\ getLog' = << >>
    /\ expOut' = << >>
    /\ expDir0' = files
    /\ expSummary' = << >>
    /\ ImpReset
    /\ UNCHANGED files

InExportLoop == prog = "export" /\ pc = "loop" /\ collIdx <= Len(collections)

\* one iteration: export_collection answers 200, writes the file, returns True
ExportCollectionOk ==
    /\ InExportLoop
    /\ \E status \in GetStatuses :
        LET collection == collections[collIdx]
            data == ServerDoc[collection]
            output_path == JsonPath(collection)
        IN  /\ ExportStatusOk(status)
            /\ getLog' = Append(getLog, RecordsUrl(collection))
            /\ files' = [files EXCEPT ![output_path] = Written(data)]
            /\ expOut' = Append(expOut, [name |-> collection, status |-> status,
                                         ok |-> TRUE,
                                         count |-> Len(ItemsOf(data))])
            /\ success_count' = success_count + 1
    /\ collIdx' = collIdx + 1
    /\ UNCHANGED <<prog, argc, pc, exitCode, raised, runs, dirExists, expDir0,
                   expSummary, impVars>>

\* one iteration: export_collection answers non-200, returns False
ExportCollectionFailed ==
    /\ InExportLoop
    /\ \E status \in GetStatuses :
        LET collection == collections[collIdx]
        IN  /\ ~ExportStatusOk(status)
            /\ getLog' = Append(getLog, RecordsUrl(collection))
            /\ expOut' = Append(expOut, [name |-> collection, status |-> status,
                                         ok |-> FALSE])
    /\ collIdx' = collIdx + 1
    /\ UNCHANGED <<prog, argc, pc, exitCode, raised, runs, success_count, fsVars,
                   expDir0, expSummary, impVars>>

\* requests.get raises (connection refused, timeout): nothing catches it
ExportNetworkError ==
    /\ InExportLoop
    /\ getLog' = Append(getLog, RecordsUrl(collections[collIdx]))
    /\ Crash("network")
    /\ UNCHANGED <<prog, argc, runs, success_count, fsVars, collIdx, expOut, expDir0,
                   expSummary, impVars>>

\* 200, then open(output_path, 'w') or json.dump raises: nothing catches it.
\* open failing leaves the file as it was, a failing write leaves it partial.
ExportWriteError ==
    /\ InExportLoop
    /\ \E status \in GetStatuses, partial \in BOOLEAN :
        LET output_path == JsonPath(collections[collIdx])
        IN  /\ ExportStatusOk(status)
            /\ files' = IF partial THEN [files EXCEPT ![output_path] = Bad]
                                   ELSE files
    /\ getLog' = Append(getLog, RecordsUrl(collections[collIdx]))
    /\ Crash("filesystem")
    /\ UNCHANGED <<prog, argc, runs, success_count, dirExists, collIdx, expOut,
                   expDir0, expSummary, impVars>>

\* after the loop: the summary line, exit status 0
ExportSummary ==
    /\ prog = "export" /\ pc = "loop" /\ collIdx > Len(collections)
    /\ expSummary' = <<success_count, Len(collections)>>
    /\ Exit(0)
    /\ UNCHANGED <<prog, argc, runs, success_count, fsVars, collIdx, getLog, expOut,
                   expDir0, impVars>>

(***************************************************************************)
(* import_data.py                                                          *)
(***************************************************************************)

ImportStart ==
    /\ CanStart
    /\ prog' = "import"
    /\ runs' = runs + 1
    /\ success_count' = 0
    /\ records' = << >>
    /\ recIdx' = 0
    /\ rec_success_count' = 0
    /\ readLog' = << >>
    /\ postLog' = << >>
    /\ impOut' = << >>
    /\ impSummary' = << >>
    /\ UNCHANGED <<fsVars, expVars>>

\* main(): len(sys.argv) < 3
ImportUsage ==
    /\ ImportStart
    /\ argc' \in {1, 2}
    /\ json_files' = << >>
    /\ found' = {}
    /\ fileIdx' = 0
    /\ Exit(1)

\* main(): not Path(import_dir).exists()
ImportNoDirectory ==
    /\ ImportStart
    /\ argc' = 3
    /\ ~dirExists
    /\ json_files' = << >>
    /\ found' = {}
    /\ fileIdx' = 0
    /\ Exit(1)

\* main(): the directory exists, glob finds nothing
ImportNoFiles ==
    /\ ImportStart
    /\ argc' = 3
    /\ dirExists
    /\ NoJsonFiles(glob(files))
    /\ json_files' = << >>
    /\ found' = glob(files)
    /\ fileIdx' = 0
    /\ Exit(1)

\* main() up to the for loop over sorted(json_files)
ImportBegin ==
    /\ ImportStart
    /\ argc' = 3
    /\ dirExists
    /\ ~NoJsonFiles(glob(files))
    /\ found' = glob(files)
    /\ json_files' = sorted(glob(files))
    /\ fileIdx' = 1
    /\ pc' = "files"
    /\ exitCode' = -1
    /\ raised' = "none"

AtFile == prog = "import" /\ pc = "files" /\ fileIdx <= Len(json_files)

\* import_collection: json.load raises on a file that is not JSON
ImportReadError ==
    /\ AtFile
    /\ files[json_files[fileIdx]].kind = "bad"
    /\ readLog' = Append(readLog, json_files[fileIdx])
    /\ Crash("json")
    /\ UNCHANGED <<prog, argc, runs, success_count, fsVars, expVars, json_files,
                   found, fileIdx, records, recIdx, rec_success_count,
                   postLog, impOut, impSummary>>

\* import_collection: not records, return True; main() counts it
ImportNoRecords ==
    /\ AtFile
    /\ LET json_file == json_files[fileIdx]
           collection_name == json_file.stem
       IN  /\ files[json_file].kind = "json"
           /\ ItemsOf(files[json_file].doc) = << >>
           /\ readLog' = Append(readLog, json_file)
           /\ impOut' = Append(impOut, [name |-> collection_name,
                                        line |-> "No records found",
                                        result |-> NoRecordsResult])
           /\ success_count' = IF NoRecordsResult THEN success_count + 1
                                                  ELSE success_count
    /\ fileIdx' = fileIdx + 1
    /\ UNCHANGED <<prog, argc, pc, exitCode, raised, runs, fsVars, expVars,
                   json_files, found, records, recIdx, rec_success_count,
                   postLog, impSummary>>

\* import_collection: the file has records, enter the for loop
ImportLoadRecords ==
    /\ AtFile
    /\ LET json_file == json_files[fileIdx]
       IN  /\ files[json_file].kind = "json"
           /\ ItemsOf(files[json_file].doc) # << >>
           /\ readLog' = Append(readLog, json_file)
           /\ records' = ItemsOf(files[json_file].doc)
    /\ recIdx' = 1
    /\ rec_success_count' = 0
    /\ pc' = "records"
    /\ UNCHANGED <<prog, argc, exitCode, raised, runs, success_count, fsVars,
                   expVars, json_files, found, fileIdx, postLog, impOut,
                   impSummary>>

AtRecord == prog = "import" /\ pc = "records" /\ recIdx <= Len(records)

\* one iteration of the record loop; after the last record import_collection
\* prints its line and returns, and main() counts the result
ImportPost ==
    /\ AtRecord
    /\ \E status \in PostStatuses :
        LET collection_name == json_files[fileIdx].stem
            record == StripSystemFields(records[recIdx])
            count == IF ImportStatusOk(status) THEN rec_success_count + 1
                                               ELSE rec_success_count
            result == CollectionResult(count, Len(records))
        IN  /\ postLog' = Append(postLog, [url |-> RecordsUrl(collection_name),
                                           read |-> records[recIdx],
                                           json |-> record,
                                           status |-> status])
            /\ records' = [records EXCEPT ![recIdx] = record]
            /\ rec_success_count' = count
            /\ IF recIdx < Len(records)
               THEN /\ recIdx' = recIdx + 1
                    /\ UNCHANGED <<pc, fileIdx, success_count, impOut>>
               ELSE /\ recIdx' = recIdx + 1
                    /\ impOut' = Append(impOut, [name |-> collection_name,
                                                 line |-> "Imported",
                                                 succeeded |-> count,
                                                 total |-> Len(records),
                                                 result |-> result])
                    /\ success_count' = IF result THEN success_count + 1
                                                  ELSE success_count
                    /\ fileIdx' = fileIdx + 1
                    /\ pc' = "files"
    /\ UNCHANGED <<prog, argc, exitCode, raised, runs, fsVars, expVars, json_files,
                   found, readLog, impSummary>>

\* requests.post raises: nothing catches it
ImportNetworkError ==
    /\ AtRecord
    /\ postLog' = Append(postLog, [url |-> RecordsUrl(json_files[fileIdx].stem),
                                   read |-> records[recIdx],
                                   json |-> StripSystemFields(records[recIdx]),
                                   status |-> 0])
    /\ records' = [records EXCEPT ![recIdx] = StripSystemFields(records[recIdx])]
    /\ Crash("network")
    /\ UNCHANGED <<prog, argc, runs, success_count, fsVars, expVars, json_files,
                   found, fileIdx, recIdx, rec_success_count, readLog, impOut,
                   impSummary>>

\* after the loop: the summary line, exit status 0
ImportSummary ==
    /\ prog = "import" /\ pc = "files" /\ fileIdx > Len(json_files)
    /\ impSummary' = <<success_count, Len(json_files)>>
    /\ Exit(0)
    /\ UNCHANGED <<prog, argc, runs, success_count, fsVars, expVars, json_files,
                   found, fileIdx, records, recIdx, rec_success_count,
                   readLog, postLog, impOut>>

Next ==
    \/ ExportUsage
    \/ ExportBegin
    \/ ExportCollectionOk
    \/ ExportCollectionFailed
    \/ ExportNetworkError
    \/ ExportWriteError
    \/ ExportSummary
    \/ ImportUsage
    \/ ImportNoDirectory
    \/ ImportNoFiles
    \/ ImportBegin
    \/ ImportReadError
    \/ ImportNoRecords
    \/ ImportLoadRecords
    \/ ImportPost
    \/ ImportNetworkError
    \/ ImportSummary

Spec == Init /\ [][Next]_vars

(***************************************************************************)
(* Properties                                                              *)
(***************************************************************************)

\* a run has ended, by sys.exit, by falling off main() or by a traceback
Ended == pc \in {"exited", "crashed"}

\* the run fell off the end of main()
Completed == pc = "exited" /\ exitCode = 0

\* number of lines of a log that satisfy a test
TrueLines(log) == Cardinality({i \in DOMAIN log : log[i].result})

\* C1 (state part): in an export run the GETs issued are the collections in
\* list order, one each; every answered GET has one line; a run that fell off
\* main() issued all five GETs and its summary counts the collections that
\* answered 200, at most 5.
C1_State ==
    prog = "export" /\ argc >= 2 =>
        /\ Len(getLog) <= Len(collections)
        /\ \A i \in DOMAIN getLog : getLog[i] = RecordsUrl(collections[i])
        /\ \A i \in DOMAIN expOut : expOut[i].name = collections[i]
        /\ pc = "loop" => Len(getLog) = Len(expOut) /\ collIdx = Len(expOut) + 1
        /\ Completed =>
            /\ Len(getLog) = Len(collections)
            /\ Len(expOut) = Len(collections)
            /\ expSummary[1] =
                 Cardinality({i \in DOMAIN expOut : expOut[i].status = 200})
            /\ expSummary[2] = Len(collections)
            /\ expSummary[1] <= 5

\* C1 (step part): a non-200 answer leaves the run in its loop at the next
\* collection, with the count unchanged.
C1_Step ==
    (/\ prog = "export"
     /\ Len(expOut') = Len(expOut) + 1
     /\ expOut'[Len(expOut')].status # 200)
        => /\ pc' = "loop"
           /\ collIdx' = collIdx + 1
           /\ success_count' = success_count

\* C1: for every assignment of HTTP statuses to the five collections the
\* exporter issues one GET per collection in list order, a non-200 answer
\* never keeps the later collections from being requested, and the summary
\* count equals the number of collections that answered 200 (never above 5).
C1_ExportLoop == []C1_State /\ [][C1_Step]_vars

\* C1 witness: a completed export in which a 404 was followed by a 200
C1_Witness ==
    /\ prog = "export" /\ Completed
    /\ expOut[1].status = 404 /\ expOut[2].status = 200 /\ expOut[5].status = 404
    /\ expSummary = <<2, 5>>

\* C2: a network or filesystem error on one collection or record is caught
\* and counted; it never ends the run.
C2_ErrorsCaught == ~(pc = "crashed" /\ raised \in {"network", "filesystem", "json"})

\* g is f without the keys in K
IsWithout(g, f, K) ==
    /\ DOMAIN g = DOMAIN f \ K
    /\ \A k \in DOMAIN g : g[k] = f[k]

\* C3: the body of every creation request is the record read from the file
\* without id, created and updated: none of the three is in the body, every
\* other key is there with its value, whether or not the three were present.
C3_StripExactly ==
    \A i \in DOMAIN postLog :
        /\ DOMAIN postLog[i].json \cap SystemFields = {}
        /\ IsWithout(postLog[i].json, postLog[i].read, SystemFields)

\* C3 witness: one request for a record with all three keys, one for a record
\* with none of them
C3_Witness ==
    /\ \E i \in DOMAIN postLog : postLog[i].read = RecFull
    /\ \E i \in DOMAIN postLog : postLog[i].read = RecPlain
    /\ \E i \in DOMAIN postLog : postLog[i].read = RecId

\* the files of S by the number of files of S whose name is smaller
NameRank(f, S) == 1 + Cardinality({g \in S : LexLess(NameOf(g), NameOf(f))})
ByName(S) == [i \in 1..Cardinality(S) |-> CHOOSE f \in S : NameRank(f, S) = i]

\* the requests due for a sequence of files: url and record, file by file
RECURSIVE PostsDue(_, _)
PostsDue(fs, order) ==
    IF order = << >> THEN << >>
    ELSE LET f == Head(order)
             items == IF fs[f].kind = "json" THEN ItemsOf(fs[f].doc) ELSE << >>
         IN  [i \in DOMAIN items |-> <<RecordsUrl(f.stem), items[i]>>]
                 \o PostsDue(fs, Tail(order))

\* the requests issued so far: url and record as read
PostsSent == [i \in DOMAIN postLog |-> <<postLog[i].url, postLog[i].read>>]

\* C4 (state part): the POSTs issued so far are the first ones of the list
\* "files by name, records in file order", each once; a run that fell off
\* main() issued the whole list.
C4_State ==
    prog = "import" =>
        LET due == PostsDue(files, ByName(glob(files)))
        IN  /\ Len(PostsSent) <= Len(due)
            /\ \A i \in DOMAIN PostsSent : PostsSent[i] = due[i]
            /\ Completed => PostsSent = due

\* C4 (step part): an answer other than 200/201 leaves the run in its loops
C4_Step ==
    (/\ prog = "import"
     /\ Len(postLog') = Len(postLog) + 1
     /\ postLog'[Len(postLog')].status \in PostStatuses \ {200, 201})
        => /\ pc' \in {"files", "records"}
           /\ pc' = "records" => recIdx' = recIdx + 1 /\ fileIdx' = fileIdx
           /\ pc' = "files" => fileIdx' = fileIdx + 1

\* C4: an import run that passes its checks POSTs, for each *.json file in
\* lexicographic order of file name, each record of the file in file order to
\* the collection named by the stem; another status than 200/201 never stops
\* or skips the later requests, and no record is posted twice.
C4_PostOrder == []C4_State /\ [][C4_Step]_vars

\* C4 witness: a completed import of four files, a rejected record followed
\* by requests for the same file and for a later one
C4_Witness ==
    /\ prog = "import" /\ Completed
    /\ Len(json_files) >= 4
    /\ \E i, j, k \in DOMAIN postLog :
        /\ i < j /\ j < k
        /\ postLog[i].status = 400
        /\ postLog[j].url = postLog[i].url
        /\ postLog[k].url # postLog[i].url

\* the answers to the requests for one collection
StatusesFor(name) ==
    {postLog[j].status : j \in {j \in DOMAIN postLog : postLog[j].url = RecordsUrl(name)}}

\* C5: import_collection returns True exactly when every record of the
\* collection was answered 200 or 201, and the summary is the number of
\* files that returned True out of the number of *.json files found.
C5_CollectionResult ==
    prog = "import" =>
        /\ \A i \in DOMAIN impOut :
            impOut[i].result <=> StatusesFor(impOut[i].name) \subseteq {200, 201}
        /\ Completed =>
            /\ Len(impOut) = Cardinality(glob(files))
            /\ impSummary = <<TrueLines(impOut), Cardinality(glob(files))>>

\* C5 witness: a completed import in which a collection with one rejected and
\* one accepted record failed and another collection succeeded with a 200 and
\* another with a 201
C5_Witness ==
    /\ prog = "import" /\ Completed
    /\ \E i \in DOMAIN impOut :
        /\ ~impOut[i].result
        /\ StatusesFor(impOut[i].name) = {201, 400}
    /\ \E i, j \in DOMAIN impOut :
        /\ impOut[i].result /\ StatusesFor(impOut[i].name) = {200}
        /\ impOut[j].result /\ StatusesFor(impOut[j].name) = {201}
    /\ impSummary[1] < impSummary[2]

\* the *.json files whose document has no items field or empty items
EmptyFiles ==
    {f \in glob(files) : files[f].kind = "json" /\ ItemsOf(files[f].doc) = << >>}

C7_Preconditions ==
    /\ (prog = "import" /\ argc >= 3 /\ (~dirExists \/ glob(files) = {})) =>
        /\ pc = "exited" /\ exitCode # 0
        /\ readLog = << >> /\ postLog = << >> /\ impOut = << >>
        /\ impSummary = << >>
    /\ (postLog # << >> \/ readLog # << >>) =>
        prog = "import" /\ argc >= 3 /\ dirExists /\ glob(files) # {}

\* C7 witness: the run found a directory that holds only notes.txt
C7_Witness ==
    /\ prog = "import" /\ argc >= 3 /\ pc = "exited"
    /\ dirExists /\ files[NotesPath] # Absent /\ glob(files) = {}

\* C7 witness: the run found no directory
C7_WitnessNoDir == prog = "import" /\ argc >= 3 /\ pc = "exited" /\ ~dirExists

\* C8: the exporter exits 1 exactly when it has no base_url and 0 otherwise;
\* the importer exits 1 exactly when it has fewer than 2 arguments, the
\* directory does not exist or it holds no *.json file, and 0 otherwise.
C8_ExitCodes ==
    Ended =>
        /\ exitCode \in {0, 1}
        /\ prog = "export" => (exitCode = 1 <=> argc < 2)
        /\ prog = "import" =>
            (exitCode = 1 <=> (argc < 3 \/ ~dirExists \/ glob(files) = {}))

\* the entries of the directory that are not export files of the collections
OtherFiles == FileNames \ {JsonPath(collections[i]) : i \in DOMAIN collections}

\* C9 (state part): for every collection export_collection returned for, a
\* 200 left the answered document in <name>.json and printed the length of
\* its items (0 without items); another status left <name>.json as the run
\* found it.  No other entry of the directory is touched.
C9_State ==
    /\ \A i \in DOMAIN expOut :
        LET f == JsonPath(expOut[i].name)
        IN  /\ expOut[i].status = 200 =>
                /\ files[f] = [kind |-> "json", doc |-> ServerDoc[expOut[i].name]]
                /\ expOut[i].count =
                     IF "items" \in DOMAIN files[f].doc
                     THEN Len(files[f].doc.items) ELSE 0
            /\ expOut[i].status # 200 => files[f] = expDir0[f]
    /\ prog = "export" => \A f \in OtherFiles : files[f] = expDir0[f]

\* C9 (step part): no step of the importer changes the directory
C9_Step == prog' = "import" => files' = files /\ dirExists' = dirExists

\* C9: after an export, a collection answered 200 has its file holding the
\* parsed body (a prior file overwritten) and the printed count is the length
\* of the file's items; a collection answered otherwise has its file neither
\* created nor modified; the importer never modifies a file.
C9_ExportFiles == []C9_State /\ [][C9_Step]_vars

\* C9 witness: an export that overwrote a stale users.json, left archive.json
\* alone and created no posts.json on a 404, followed by an import
C9_Witness ==
    /\ prog = "import" /\ Completed
    /\ Len(expOut) = 5
    /\ expDir0[JsonPath("users")] = Json(DocStale)
    /\ files[JsonPath("users")] = Json(DocOneItem)
    /\ expOut[2].status = 404 /\ files[JsonPath("posts")] = Absent
    /\ expOut[3].status = 200 /\ expOut[3].count = 2
    /\ files[JsonPath("archive")] = Json(DocArchive)

\* an export into an empty directory that reached its summary, then an import
\* of that directory whose every POST was accepted
RoundTrip ==
    /\ prog = "import" /\ argc >= 3 /\ Ended /\ raised # "network"
    /\ expSummary # << >>
    /\ \A f \in FileNames : expDir0[f] = Absent
    /\ \A i \in DOMAIN postLog : postLog[i].status \in {200, 201}

\* the number of collections the export got a 200 for
Exported == Cardinality({i \in DOMAIN expOut : expOut[i].status = 200})

\* the POSTs are one per exported item, to the item's collection, with the
\* item without id, created and updated as body
RoundTripPosts ==
    /\ \A j \in DOMAIN postLog :
        \E i \in DOMAIN collections : postLog[j].url = RecordsUrl(collections[i])
    /\ \A i \in DOMAIN expOut :
        LET name == expOut[i].name
            items == IF expOut[i].status = 200 THEN ItemsOf(ServerDoc[name])
                     ELSE << >>
            To(e) == e.url = RecordsUrl(name)
            sent == SelectSeq(postLog, To)
        IN  /\ Len(sent) = Len(items)
            /\ \A j \in DOMAIN sent : IsWithout(sent[j].json, items[j], SystemFields)

\* C10 as stated: the round trip gives an export summary of k/5, an import
\* summary of k/k and one POST per exported item, for every k.
C10_RoundTripAnyK ==
    RoundTrip =>
        /\ expSummary = <<Exported, 5>>
        /\ impSummary = <<Exported, Exported>>
        /\ RoundTripPosts

\* C10 amended: the round trip gives an export summary of k/5 and one POST
\* per exported item; for k >= 1 the import summary is k/k, for k = 0 the
\* importer finds no file, exits 1 and prints no summary.
C10_RoundTrip ==
    RoundTrip =>
        /\ expSummary = <<Exported, 5>>
        /\ RoundTripPosts
        /\ Exported >= 1 => Completed /\ impSummary = <<Exported, Exported>>
        /\ Exported = 0 =>
            pc = "exited" /\ exitCode = 1 /\ impSummary = << >> /\ postLog = << >>

\* C10 witness: users answered 200 with one item, the others 404; 1/5, then
\* 1/1 with body {"name": "x"}
C10_Witness ==
    /\ RoundTrip
    /\ expSummary = <<1, 5>>
    /\ expOut[1].status = 200
    /\ impSummary = <<1, 1>>
    /\ Len(postLog) = 1
    /\ postLog[1].url = RecordsUrl("users")
    /\ postLog[1].json = [name |-> "x"]
====
